---- MODULE Spec2Model ----
(***************************************************************************)
(* A model of wcm-scanner: the declared-dependency graph pipeline          *)
(* (generateDependencyGraph), the import inspection pipeline               *)
(* (generateImportGraph / inspectSourceFiles) and the utilities            *)
(* firstDefinedProperty and pruneVersionString.                            *)
(*                                                                         *)
(* Text is modelled as a sequence of characters, each character a          *)
(* one-character string.  A JavaScript object is a record that lists its   *)
(* own keys in enumeration order (field keys) next to the values.          *)
(***************************************************************************)
EXTENDS Integers, Sequences, FiniteSets, TLC

(***************************************************************************)
(* Bounds of the model.                                                    *)
(***************************************************************************)
MaxVersionLen == 4
MaxInstalled == 2
MaxElements == 2
MaxValueLen == 3
MaxChildren == 2

\* The value JavaScript gives for a property that is not there.
Undefined == "<undefined>"
\* The outcome of calling [0] on the null that RegExp.exec returns.
TypeError == <<"TypeError">>

(***************************************************************************)
(* Sequence helpers.                                                       *)
(***************************************************************************)
Range(s) == {s[i] : i \in DOMAIN s}

Contains(x, s) == \E i \in DOMAIN s : s[i] = x

RECURSIVE SeqsUpTo(_, _)
SeqsUpTo(S, n) ==
  IF n = 0 THEN {<<>>}
  ELSE LET shorter == SeqsUpTo(S, n - 1)
       IN  shorter \cup {Append(s, x) : s \in {t \in shorter : Len(t) = n - 1}, x \in S}

\* Sequences without repetition over S, of length at most n.
DistinctSeqsUpTo(S, n) ==
  {s \in SeqsUpTo(S, n) : \A i, j \in DOMAIN s : i # j => s[i] # s[j]}

RECURSIVE Filter(_, _)
\* The elements of s that are in the set keep, in the order of s.
Filter(s, keep) ==
  IF s = <<>> THEN <<>>
  ELSE IF Head(s) \in keep THEN <<Head(s)>> \o Filter(Tail(s), keep)
       ELSE Filter(Tail(s), keep)

RECURSIVE Uniq(_)
\* ramda uniq: the first occurrence of each element, in order.
Uniq(s) ==
  IF s = <<>> THEN <<>>
  ELSE <<Head(s)>> \o Uniq(Filter(Tail(s), Range(s) \ {Head(s)}))

(***************************************************************************)
(* utilities: firstDefinedProperty                                         *)
(***************************************************************************)
\* ramda keys: the own enumerable keys of the object, in enumeration order.
Keys(obj) == obj.keys

\* ramda prop: obj[k], undefined for a key that is not there (and for the
\* key undefined itself, which no manifest has).
Prop(k, obj) ==
  IF ~Contains(k, Keys(obj)) THEN Undefined
  ELSE CASE k = "name" -> obj.name
         [] k = "version" -> obj.version
         [] k = "_release" -> obj.release
         [] OTHER -> Undefined

\* ramda head: the first element, undefined for an empty list.
HeadOrUndefined(s) == IF s = <<>> THEN Undefined ELSE Head(s)

\* A variant of intersection that always filters the second list, so that
\* the result follows the key order of the object.
IntersectionBySecondList(list1, list2) == Uniq(Filter(list2, Range(list1)))

\* ramda intersection: the shorter list is filtered by membership in the
\* longer one (the second list when the lengths are equal), then uniq.
Intersection(list1, list2) ==
  IF Len(list1) > Len(list2)
  THEN Uniq(Filter(list2, Range(list1)))
  ELSE Uniq(Filter(list1, Range(list2)))

\* prop(compose(head, curry(intersection)(props), keys)(obj), obj)
firstDefinedProperty(props, obj) ==
  Prop(HeadOrUndefined(Intersection(props, Keys(obj))), obj)

(***************************************************************************)
(* utilities: pruneVersionString                                           *)
(***************************************************************************)
Digits == {"0", "1", "2", "3", "4", "5", "6", "7", "8", "9"}

\* (\^|~|<|>|(<|>)=)? matches the first k characters of t.
RangeOperatorMatches(t, k) ==
  \/ k = 0
  \/ k = 1 /\ Len(t) >= 1 /\ t[1] \in {"^", "~", "<", ">"}
  \/ k = 2 /\ Len(t) >= 2 /\ t[1] \in {"<", ">"} /\ t[2] = "="

\* ((\d.)?(\d.)?)?\d$ matches the whole of r: one digit, preceded by at
\* most two pairs of a digit and any character.
DigitsMatch(r) ==
  /\ Len(r) \in {1, 3, 5}
  /\ \A i \in DOMAIN r : (i % 2 = 1) => r[i] \in Digits

\* The second alternative of the pattern matches t up to the end of input.
SecondAlternativeMatches(t) ==
  \E k \in 0..2 :
    /\ Len(t) >= k
    /\ RangeOperatorMatches(t, k)
    /\ DigitsMatch(SubSeq(t, k + 1, Len(t)))

\* Positions at which /(\*)|(\^|~|<|>|(<|>)=)?((\d.)?(\d.)?)?\d$/ matches.
MatchStarts(v) ==
  {i \in DOMAIN v : v[i] = "*" \/ SecondAlternativeMatches(SubSeq(v, i, Len(v)))}

\* exec(version)[0]: the text of the leftmost match; a TypeError when exec
\* returns null.
pruneVersionString(v) ==
  IF MatchStarts(v) = {} THEN TypeError
  ELSE LET i == CHOOSE m \in MatchStarts(v) : \A n \in MatchStarts(v) : m <= n
       IN  IF v[i] = "*" THEN <<"*">> ELSE SubSeq(v, i, Len(v))

(***************************************************************************)
(* The state.                                                              *)
(***************************************************************************)
VARIABLES
  packageManager,   \* opts.packageManager
  folders,          \* what the dependencies folder holds, in listing order
  pc,               \* where generateDependencyGraph stands
  reads,            \* the manifest reads in flight, one per listed folder
  completed,        \* the reads that have ended, in the order they ended
  graph,            \* the DependencyGraph under construction
  impliedRequests,  \* the calls of addImpliedDependency so far, in order
  edgeLog,          \* the calls of createInterDependency so far, in order
  error,            \* what the returned promise is rejected with
  run,              \* which call of generateDependencyGraph this is
  firstGraph,       \* the graph the first call returned
  versionIn,        \* the argument of pruneVersionString
  versionOut,       \* its result
  objIn,            \* the argument of firstDefinedProperty(["version", "_release"])
  objOut,           \* its result
  directoryIn,      \* the dependencies directory listInstalledDependencies scans
  namesOut,         \* the folder names it resolves to
  inspection,       \* the IInspectionOptions of generateImportGraph
  fileExists,       \* whether a file is at the resolved entry path
  document,         \* the elements of the entry file's markup, in document order
  ipc,              \* where generateImportGraph stands
  ioLog,            \* the file and markup calls made so far, in order
  fileMetadata,     \* the IFileMetadata the inspection resolved to
  importGraph,      \* the ImportGraph generateImportGraph builds
  ierror            \* what generateImportGraph's promise is rejected with

depVars == <<packageManager, folders, pc, reads, completed, graph, impliedRequests, edgeLog,
             error, run, firstGraph>>
utilVars == <<versionIn, versionOut, objIn, objOut, directoryIn, namesOut>>
impVars == <<inspection, fileExists, document, ipc, ioLog, fileMetadata, importGraph,
             ierror>>
vars == <<depVars, utilVars, impVars>>

(***************************************************************************)
(* Manifests.  A manifest is the parsed JSON object of one dependency:     *)
(* its own keys in order, and the values of the keys the scanner reads.    *)
(***************************************************************************)
\* A and B are installed; C is only ever declared.
NameList == <<"A", "B", "C">>
InstalledNames == {"A", "B"}
InstalledVersions == {"1.0.0", "2.3.1"}
DeclaredRanges == {"2.3.1", "^2.0.0"}
\* opts.packageManager: a supported kind, another one, or none at all.
PackageManagers == {"bower", "npm", "yarn", Undefined}

Manifest(ks, n, v, r, d) ==
  [keys |-> ks, name |-> n, version |-> v, release |-> r, dependencies |-> d]

\* The dependencies maps: at most one range per name, keys in name order.
RECURSIVE PairsOf(_, _)
PairsOf(f, names) ==
  IF names = <<>> THEN <<>>
  ELSE IF f[Head(names)] = Undefined THEN PairsOf(f, Tail(names))
       ELSE <<<<Head(names), f[Head(names)]>>>> \o PairsOf(f, Tail(names))

\* The ranges a manifest of package n may declare for the name: none for
\* itself, and one spelling for the package that is never installed.
RangesFor(n, name) ==
  IF name = n THEN {Undefined}
  ELSE IF name \in InstalledNames THEN DeclaredRanges \cup {Undefined}
       ELSE {"^2.0.0", Undefined}

\* The dependencies maps of a manifest of package n, keys in NameList order.
DependencyMaps(n) ==
  {PairsOf(f, NameList) :
     f \in {g \in [Range(NameList) -> DeclaredRanges \cup {Undefined}] :
             \A name \in Range(NameList) : g[name] \in RangesFor(n, name)}}

\* package.json: name, version and, optionally, dependencies.
PackageJsons ==
  UNION {{Manifest(<<"name", "version", "dependencies">>, n, v, Undefined, d) :
            v \in InstalledVersions, d \in DependencyMaps(n)}
         \cup {Manifest(<<"name", "version">>, n, v, Undefined, <<>>) :
                 v \in InstalledVersions} : n \in InstalledNames}

\* .bower.json: bower adds _release (and more) after the package's own keys.
BowerJsons ==
  UNION {{Manifest(<<"name", "version", "dependencies", "_release">>, n, v, v, d) :
            v \in InstalledVersions, d \in DependencyMaps(n)}
         \cup {Manifest(<<"name", "version", "_release">>, n, v, v, <<>>) :
                 v \in InstalledVersions} : n \in InstalledNames}

NoManifest == Manifest(<<>>, Undefined, Undefined, Undefined, <<>>)

\* A folder of the dependencies directory: its manifest, or none that parses.
Folder(ok, json) == [ok |-> ok, json |-> json]

FoldersOf(pm) ==
  {Folder(TRUE, m) : m \in IF pm = "npm" THEN PackageJsons ELSE BowerJsons}
  \cup {Folder(FALSE, NoManifest)}

(***************************************************************************)
(* The DependencyGraph of @ctek/wcm-graph, as the scanner uses it.  A node *)
(* is keyed by its (name, version) pair and is real (it holds a manifest)  *)
(* or implied (it holds none).                                             *)
(***************************************************************************)
Key(n, v) == [name |-> n, version |-> v]

NewDependencyGraph == [nodes |-> <<>>, edges |-> {}]

Node(meta, kind, data) == [key |-> Key(meta.name, meta.version), kind |-> kind, data |-> data]

addRealDependency(g, meta, data) ==
  [g EXCEPT !.nodes = Append(@, Node(meta, "real", data))]

addImpliedDependency(g, meta) ==
  IF Contains(Node(meta, "implied", NoManifest), g.nodes) THEN g
  ELSE [g EXCEPT !.nodes = Append(@, Node(meta, "implied", NoManifest))]

\* The registered nodes, in registration order.
listDependencies(g) == [i \in DOMAIN g.nodes |-> g.nodes[i].key]

getDependencyData(g, key) ==
  (CHOOSE node \in Range(g.nodes) : node.key = key).data

\* The versions registered as real nodes under the name.
getDependencyAliases(g, name) ==
  LET real == {i \in DOMAIN g.nodes :
                 g.nodes[i].kind = "real" /\ g.nodes[i].key.name = name}
      RECURSIVE From(_)
      From(i) == IF i > Len(g.nodes) THEN <<>>
                 ELSE IF i \in real THEN <<g.nodes[i].key.version>> \o From(i + 1)
                      ELSE From(i + 1)
  IN  From(1)

createInterDependency(g, from, meta) ==
  [g EXCEPT !.edges = @ \cup {[from |-> from, to |-> Key(meta.name, meta.version)]}]

NodeKeys(g) == {node.key : node \in Range(g.nodes)}

(***************************************************************************)
(* scanner: the declared-dependency pipeline.                              *)
(***************************************************************************)
\* { name: dependencyJson.name, version: firstDefinedProperty([...])(json) }
getDependencyMetadata(json) ==
  [name |-> Prop("name", json),
   version |-> firstDefinedProperty(<<"version", "_release">>, json)]

\* toPairs(obj.dependencies): the declared (name, range) pairs in key order,
\* none when the object has no dependencies.
toPairsOfDependencies(obj) ==
  IF Contains("dependencies", Keys(obj)) THEN obj.dependencies ELSE <<>>

\* A variant that takes the pairs of the manifest itself.
getDependencyPairsOfManifest(json) ==
  [i \in DOMAIN Keys(json) |-> <<Keys(json)[i], Prop(Keys(json)[i], json)>>]

\* toPairs(prop("dependencies", dependencyJson))
getDependencyPairs(json) == toPairsOfDependencies(json)

\* unnest(map(name => getDependencyPairs(getDependencyData(name)), listDependencies()))
getAllDependencyPairs(g) ==
  LET names == listDependencies(g)
      RECURSIVE From(_)
      From(i) == IF i > Len(names) THEN <<>>
                 ELSE getDependencyPairs(getDependencyData(g, names[i])) \o From(i + 1)
  IN  From(1)

\* A variant that settles with the first read that produces its JSON.
PromiseAnyFulfilled(rs) == \E i \in DOMAIN rs : rs[i] = "done"

\* A variant that waits for every read to end and keeps the JSON documents of
\* those that produced one.
PromiseAllSettled(rs) == \A i \in DOMAIN rs : rs[i] # "pending"

\* Promise.all over the reads is fulfilled: every read has produced its JSON.
PromiseAllFulfilled(rs) == \A i \in DOMAIN rs : rs[i] = "done"

\* Promise.all over the reads is rejected: one read has failed.
PromiseAllRejected(rs) == \E i \in DOMAIN rs : rs[i] = "failed"

\* The JSON documents the for...of of registerDeclaredDependencies walks.
ReadResults(fs, rs) ==
  LET RECURSIVE From(_)
      From(i) == IF i > Len(fs) THEN <<>>
                 ELSE IF rs[i] = "done" THEN <<fs[i].json>> \o From(i + 1)
                      ELSE From(i + 1)
  IN  From(1)

RECURSIVE RegisterAll(_, _)
\* for (dependencyJson of jsons) addRealDependency(getDependencyMetadata(json), json)
RegisterAll(g, jsons) ==
  IF jsons = <<>> THEN g
  ELSE RegisterAll(addRealDependency(g, getDependencyMetadata(Head(jsons)), Head(jsons)),
                   Tail(jsons))

\* Variants of the alias test: one that takes any installed version of the
\* name as satisfying the range, one that never finds the range satisfied.
NeedsImpliedDependencyUnlessInstalled(g, name, version) ==
  getDependencyAliases(g, name) = <<>>

NeedsImpliedDependencyAlways(g, name, version) == TRUE

\* if (!contains(version, dependencyGraph.getDependencyAliases(name)))
NeedsImpliedDependency(g, name, version) ==
  ~Contains(version, getDependencyAliases(g, name))

RECURSIVE ImplyAll(_, _)
\* The loop of registerImpliedDependencies over the pairs collected up front:
\* the graph it leaves and the addImpliedDependency calls it made.
ImplyAll(st, pairs) ==
  IF pairs = <<>> THEN st
  ELSE LET name == Head(pairs)[1]
           version == Head(pairs)[2]
       IN  IF NeedsImpliedDependency(st.g, name, version)
           THEN ImplyAll([g |-> addImpliedDependency(st.g, Key(name, version)),
                          calls |-> Append(st.calls, Key(name, version))],
                         Tail(pairs))
           ELSE ImplyAll(st, Tail(pairs))

RECURSIVE LinkPairs(_, _, _)
\* The inner loop of generateDependencyGraph: one createInterDependency per
\* declared pair of the node; each call is logged with whether its two ends
\* were registered when it was made.
LinkPairs(st, from, pairs) ==
  IF pairs = <<>> THEN st
  ELSE LET to == Key(Head(pairs)[1], Head(pairs)[2])
       IN  LinkPairs([g |-> createInterDependency(st.g, from, to),
                      calls |-> Append(st.calls,
                                       [from |-> from, to |-> to,
                                        fromRegistered |-> from \in NodeKeys(st.g),
                                        toRegistered |-> to \in NodeKeys(st.g)])],
                     from, Tail(pairs))

RECURSIVE LinkAll(_, _)
\* The outer loop of generateDependencyGraph over listDependencies().
LinkAll(st, names) ==
  IF names = <<>> THEN st
  ELSE LinkAll(LinkPairs(st, Head(names),
                         toPairsOfDependencies(getDependencyData(st.g, Head(names)))),
               Tail(names))

(***************************************************************************)
(* inspection: paths and placeholder substitution.  A path is a sequence   *)
(* of characters; "/" separates its segments.                              *)
(***************************************************************************)
RECURSIVE SplitPath(_, _, _)
\* The segments of the path: the runs of characters between separators.
SplitPath(s, segment, done) ==
  IF s = <<>> THEN Append(done, segment)
  ELSE IF Head(s) = "/" THEN SplitPath(Tail(s), <<>>, Append(done, segment))
       ELSE SplitPath(Tail(s), Append(segment, Head(s)), done)

RECURSIVE NormalizeSegments(_, _)
\* path.resolve's normalization of an absolute path: empty and "." segments
\* are dropped, ".." drops the segment before it (none at the root).
NormalizeSegments(segments, kept) ==
  IF segments = <<>> THEN kept
  ELSE LET segment == Head(segments)
       IN  IF segment = <<>> \/ segment = <<".">>
           THEN NormalizeSegments(Tail(segments), kept)
           ELSE IF segment = <<".", ".">>
                THEN NormalizeSegments(Tail(segments),
                                       IF kept = <<>> THEN kept
                                       ELSE SubSeq(kept, 1, Len(kept) - 1))
                ELSE NormalizeSegments(Tail(segments), Append(kept, segment))

RECURSIVE JoinSegments(_)
JoinSegments(segments) ==
  IF segments = <<>> THEN <<>>
  ELSE <<"/">> \o Head(segments) \o JoinSegments(Tail(segments))

\* A variant that returns the path it is given and leaves the root out.
ResolveToItself(from, to) == to

\* path.resolve(from, to) for an absolute from: to alone when it is
\* absolute, from when to is empty, else from/to; then normalized.
Resolve(from, to) ==
  LET joined == IF to = <<>> THEN from
                ELSE IF Head(to) = "/" THEN to
                     ELSE from \o <<"/">> \o to
      kept == NormalizeSegments(SplitPath(joined, <<>>, <<>>), <<>>)
  IN  IF kept = <<>> THEN <<"/">> ELSE JoinSegments(kept)

\* The positions at which pattern occurs in s.
Occurrences(s, pattern) ==
  {i \in 1..(Len(s) - Len(pattern) + 1) : SubSeq(s, i, i + Len(pattern) - 1) = pattern}

\* s.replace(pattern, replacement) with a string pattern: the first
\* occurrence is replaced, the others are left.
ReplaceFirst(s, pattern, replacement) ==
  IF Occurrences(s, pattern) = {} THEN s
  ELSE LET i == CHOOSE m \in Occurrences(s, pattern) :
                  \A n \in Occurrences(s, pattern) : m <= n
       IN  SubSeq(s, 1, i - 1) \o replacement \o SubSeq(s, i + Len(pattern), Len(s))

RECURSIVE SubstituteUntilFirstHit(_, _)
\* A variant of the substitution loop that stops at the first placeholder
\* found in the value.
SubstituteUntilFirstHit(value, resolutions) ==
  IF resolutions = <<>> THEN value
  ELSE IF Occurrences(value, Head(resolutions)[1]) # {}
       THEN ReplaceFirst(value, Head(resolutions)[1], Head(resolutions)[2])
       ELSE SubstituteUntilFirstHit(value, Tail(resolutions))

RECURSIVE SubstitutePlaceholders(_, _)
\* for ([pathPlaceholder, replacingValue] of toPairs(opts.importResolutions))
\*   attributeValue = attributeValue.replace(pathPlaceholder, replacingValue)
SubstitutePlaceholders(value, resolutions) ==
  IF resolutions = <<>> THEN value
  ELSE SubstitutePlaceholders(ReplaceFirst(value, Head(resolutions)[1], Head(resolutions)[2]),
                              Tail(resolutions))

(***************************************************************************)
(* inspection: the markup.  An element has a tag and one attribute.        *)
(***************************************************************************)
Element(tag, attr, value) == [tag |-> tag, attr |-> attr, value |-> value]

\* link.attribs[attributeName] is a non-empty string.
HasAttributeValue(element, attributeName) ==
  element.attr = attributeName /\ element.value # <<>>

\* $(tagName).toArray()
ElementsOfTag(doc, tagName) ==
  LET RECURSIVE From(_)
      From(i) == IF i > Len(doc) THEN <<>>
                 ELSE IF doc[i].tag = tagName THEN <<doc[i]>> \o From(i + 1)
                      ELSE From(i + 1)
  IN  From(1)

ImportDeclaration(tagName, attributeName, importPath) ==
  [importDetails |-> [tagName |-> tagName, attributeName |-> attributeName],
   importPath |-> importPath]

RECURSIVE DeclarationsOfElements(_, _, _, _)
\* The inner loop of getMetadataForFile over the elements of one tag.
DeclarationsOfElements(opts, tagName, attributeName, elements) ==
  IF elements = <<>> THEN <<>>
  ELSE (IF HasAttributeValue(Head(elements), attributeName)
        THEN <<ImportDeclaration(tagName, attributeName,
                 Resolve(opts.sourceRoot,
                         SubstitutePlaceholders(Head(elements).value,
                                                opts.importResolutions)))>>
        ELSE <<>>)
       \o DeclarationsOfElements(opts, tagName, attributeName, Tail(elements))

RECURSIVE DeclarationsOfTags(_, _, _)
\* The outer loop of getMetadataForFile over toPairs(opts.importTags).
DeclarationsOfTags(opts, doc, tags) ==
  IF tags = <<>> THEN <<>>
  ELSE DeclarationsOfElements(opts, Head(tags)[1], Head(tags)[2],
                              ElementsOfTag(doc, Head(tags)[1]))
       \o DeclarationsOfTags(opts, doc, Tail(tags))

\* resolve(opts.sourceRoot, opts.entryPath)
EntryFilePath(opts) == Resolve(opts.sourceRoot, opts.entryPath)

\* A variant of the existence test that finds every file.
FileFoundAlways(exists) == TRUE

\* existsSync(filePath)
FileFound(exists) == exists

NoMetadata == [filePath |-> <<>>, importDeclarations |-> <<>>]

NewImportGraph == [files |-> {}, edges |-> {}]

NoInspection ==
  [entryPath |-> <<>>, sourceRoot |-> <<>>, importResolutions |-> <<>>, importTags |-> <<>>]

ImportPipelineIdle ==
  /\ inspection = NoInspection
  /\ fileExists = FALSE
  /\ document = <<>>
  /\ ipc = "idle"
  /\ ioLog = <<>>
  /\ fileMetadata = NoMetadata
  /\ importGraph = NewImportGraph
  /\ ierror = "none"

(***************************************************************************)
(* filesystem: the listing of the dependencies directory.  A directory is  *)
(* its path and its children in readdir order; a child has a name and is   *)
(* a directory or not.                                                     *)
(***************************************************************************)
DirectoryEntry(name, isDirectory) == [name |-> name, isDirectory |-> isDirectory]

Directory(directoryPath, entries) == [directoryPath |-> directoryPath, entries |-> entries]

\* readdir(directoryPath).then(map(curryN(2, resolve)(directoryPath)))
listDirectoryContents(dir) ==
  [i \in DOMAIN dir.entries |-> Resolve(dir.directoryPath, dir.entries[i].name)]

\* statSync(item).isDirectory(): what the file system holds at the path.
statSyncIsDirectory(dir, item) ==
  \E i \in DOMAIN dir.entries :
    /\ Resolve(dir.directoryPath, dir.entries[i].name) = item
    /\ dir.entries[i].isDirectory

RECURSIVE extractFoldersSync(_, _)
\* paths.filter(item => statSync(item).isDirectory())
extractFoldersSync(dir, paths) ==
  IF paths = <<>> THEN <<>>
  ELSE (IF statSyncIsDirectory(dir, Head(paths)) THEN <<Head(paths)>> ELSE <<>>)
       \o extractFoldersSync(dir, Tail(paths))

\* paths.map(pipe(split(sep), last))
extractPathEndingsSync(paths) ==
  [i \in DOMAIN paths |->
     LET segments == SplitPath(paths[i], <<>>, <<>>) IN segments[Len(segments)]]

\* The characters \w matches.
WordCharacters ==
  {"a", "b", "c", "d", "e", "f", "g", "h", "i", "j", "k", "l", "m", "n", "o", "p", "q",
   "r", "s", "t", "u", "v", "w", "x", "y", "z",
   "A", "B", "C", "D", "E", "F", "G", "H", "I", "J", "K", "L", "M", "N", "O", "P", "Q",
   "R", "S", "T", "U", "V", "W", "X", "Y", "Z",
   "0", "1", "2", "3", "4", "5", "6", "7", "8", "9", "_"}

RECURSIVE filterLeadingDot(_)
\* A variant of the filter that drops the names that begin with a dot.
filterLeadingDot(filenames) ==
  IF filenames = <<>> THEN <<>>
  ELSE (IF Head(filenames) # <<>> /\ Head(Head(filenames)) # "."
        THEN <<Head(filenames)>> ELSE <<>>)
       \o filterLeadingDot(Tail(filenames))

RECURSIVE filterDotFiles(_)
\* filter(test(/^\w/), filenames)
filterDotFiles(filenames) ==
  IF filenames = <<>> THEN <<>>
  ELSE (IF Head(filenames) # <<>> /\ Head(Head(filenames)) \in WordCharacters
        THEN <<Head(filenames)>> ELSE <<>>)
       \o filterDotFiles(Tail(filenames))

\* pipe(extractFoldersSync, extractPathEndingsSync, filterDotFiles)(paths)
extractFolderNamesSync(dir, paths) ==
  filterDotFiles(extractPathEndingsSync(extractFoldersSync(dir, paths)))

(***************************************************************************)
(* The file system the pipeline reads: the listed folders, each with its   *)
(* manifest.  No two installed manifests share a (name, version) pair.     *)
(***************************************************************************)
InstalledFolders(pm) ==
  {fs \in SeqsUpTo(FoldersOf(pm), MaxInstalled) :
     \A i, j \in DOMAIN fs :
       (i < j /\ fs[i].ok /\ fs[j].ok)
         => (fs[i].json.name # fs[j].json.name \/ fs[i].json.version # fs[j].json.version)}

NoFirstGraph == [nodes |-> <<>>, edges |-> {}]

NotCalled == <<"not called">>
NoObject == Manifest(<<"not called">>, Undefined, Undefined, Undefined, <<>>)

NoDirectory == Directory(<<>>, <<>>)
NoNames == [called |-> FALSE, names |-> <<>>]

UtilIdle ==
  /\ versionIn = NotCalled
  /\ versionOut = NotCalled
  /\ objIn = NoObject
  /\ objOut = "<not called>"
  /\ directoryIn = NoDirectory
  /\ namesOut = NoNames

Init ==
  /\ packageManager \in PackageManagers
  /\ folders \in InstalledFolders(packageManager)
  /\ pc = "start"
  /\ reads = <<>>
  /\ completed = <<>>
  /\ graph = NewDependencyGraph
  /\ impliedRequests = <<>>
  /\ edgeLog = <<>>
  /\ error = "none"
  /\ run = 1
  /\ firstGraph = NoFirstGraph
  /\ UtilIdle
  /\ ImportPipelineIdle

(***************************************************************************)
(* generateDependencyGraph, step by step.                                  *)
(***************************************************************************)
\* A variant of the switch whose default branch lists a directory too.
AnyPackageManager(pm) == TRUE

\* The switch on opts.packageManager takes one of its two cases.
SupportedPackageManager(pm) == pm \in {"bower", "npm"}

\* listInstalledDependencies(opts): the switch on opts.packageManager.
ListInstalledDependencies ==
  /\ pc = "start"
  /\ IF SupportedPackageManager(packageManager)
     THEN /\ pc' = "listing"
          /\ error' = error
     ELSE /\ pc' = "rejected"
          /\ error' = "A 'packageManager' must be supplied"
  /\ UNCHANGED <<packageManager, folders, reads, completed, graph, impliedRequests,
                 edgeLog, run, firstGraph, utilVars, impVars>>

\* The listing is there: map(readDependenciesJson(opts)) starts one read per
\* folder, all before any of them is awaited.
IssueReads ==
  /\ pc = "listing"
  /\ reads' = [i \in DOMAIN folders |-> "pending"]
  /\ completed' = <<>>
  /\ pc' = "reading"
  /\ UNCHANGED <<packageManager, folders, graph, impliedRequests, edgeLog, error,
                 run, firstGraph, utilVars, impVars>>

\* readJson of one manifest ends: with the parsed JSON, or with an error.
CompleteRead(i) ==
  /\ i \in DOMAIN reads
  /\ reads[i] = "pending"
  /\ reads' = [reads EXCEPT ![i] = IF folders[i].ok THEN "done" ELSE "failed"]
  /\ completed' = Append(completed, i)
  /\ UNCHANGED <<packageManager, folders, pc, graph, impliedRequests, edgeLog, error,
                 run, firstGraph, utilVars, impVars>>

\* Promise.all rejects: registerDeclaredDependencies and with it
\* generateDependencyGraph end with the read's error.
ReadRejected ==
  /\ pc = "reading"
  /\ PromiseAllRejected(reads)
  /\ pc' = "rejected"
  /\ error' = "manifest read failed"
  /\ UNCHANGED <<packageManager, folders, reads, completed, graph, impliedRequests,
                 edgeLog, run, firstGraph, utilVars, impVars>>

\* registerDeclaredDependencies after its await: one real node per JSON.
RegisterDeclaredDependencies ==
  /\ pc = "reading"
  /\ PromiseAllFulfilled(reads)
  /\ graph' = RegisterAll(graph, ReadResults(folders, reads))
  /\ pc' = "registered"
  /\ UNCHANGED <<packageManager, folders, reads, completed, impliedRequests, edgeLog,
                 error, run, firstGraph, utilVars, impVars>>

\* registerImpliedDependencies(dependencyGraph)
RegisterImpliedDependencies ==
  /\ pc = "registered"
  /\ LET st == ImplyAll([g |-> graph, calls |-> impliedRequests],
                        getAllDependencyPairs(graph))
     IN  /\ graph' = st.g
         /\ impliedRequests' = st.calls
  /\ pc' = "implied"
  /\ UNCHANGED <<packageManager, folders, reads, completed, edgeLog, error, run,
                 firstGraph, utilVars, impVars>>

\* The linking loop of generateDependencyGraph, and its return.
LinkInterDependencies ==
  /\ pc = "implied"
  /\ LET st == LinkAll([g |-> graph, calls |-> edgeLog], listDependencies(graph))
     IN  /\ graph' = st.g
         /\ edgeLog' = st.calls
  /\ pc' = "done"
  /\ UNCHANGED <<packageManager, folders, reads, completed, impliedRequests, error,
                 run, firstGraph, utilVars, impVars>>

\* The caller calls generateDependencyGraph again, on the same project.
CallAgain ==
  /\ pc = "done"
  /\ run = 1
  /\ run' = 2
  /\ firstGraph' = graph
  /\ pc' = "start"
  /\ reads' = <<>>
  /\ completed' = <<>>
  /\ graph' = NewDependencyGraph
  /\ impliedRequests' = <<>>
  /\ edgeLog' = <<>>
  /\ UNCHANGED <<packageManager, folders, error, utilVars, impVars>>

Next ==
  \/ ListInstalledDependencies
  \/ IssueReads
  \/ \E i \in 1..MaxInstalled : CompleteRead(i)
  \/ ReadRejected
  \/ RegisterDeclaredDependencies
  \/ RegisterImpliedDependencies
  \/ LinkInterDependencies

Spec == Init /\ [][Next]_vars

(***************************************************************************)
(* The utilities, each called once on an argument of its own.              *)
(***************************************************************************)
VersionAlphabet == {"^", "~", ">", "=", "*", "1", "2", ".", "#"}

\* The version strings of the specification's examples.
VersionExamples ==
  {<<"^", "1", ".", "2", ".", "3">>, <<"~", "2", ".", "0">>, <<"*">>,
   <<"1", ".", "2", ".", "3">>, <<">", "=", "1", ".", "2", ".", "3">>}

VersionInputs == VersionExamples \cup SeqsUpTo(VersionAlphabet, MaxVersionLen)

ManifestKeys == {"name", "version", "_release", "main"}

\* Manifests with any of the keys, in any order.
ManifestInputs ==
  {Manifest(ks, "A", v, r, <<>>) :
     ks \in DistinctSeqsUpTo(ManifestKeys, Cardinality(ManifestKeys)),
     v \in {"1.0.0", "2.3.1"},
     r \in {"1.0.0-release", "2.3.1"}}

DependencyPipelineIdle ==
  /\ packageManager = "bower"
  /\ folders = <<>>
  /\ pc = "idle"
  /\ reads = <<>>
  /\ completed = <<>>
  /\ graph = NewDependencyGraph
  /\ impliedRequests = <<>>
  /\ edgeLog = <<>>
  /\ error = "none"
  /\ run = 1
  /\ firstGraph = NoFirstGraph

\* The names a child of the dependencies directory may have: those of the
\* specification's example, and names that begin with other characters.
EntryNames ==
  {<<".", "g", "i", "t">>, <<"l", "o", "d", "a", "s", "h">>,
   <<"l", "e", "f", "t", "-", "p", "a", "d">>, <<"_", "a">>, <<"-", "a">>, <<"@", "a">>,
   <<"9">>, <<"A", ".", "j", "s">>}

DirectoryEntries == {DirectoryEntry(n, d) : n \in EntryNames, d \in BOOLEAN}

\* resolve(opts.projectPath, "bower_components") and its npm counterpart.
DependenciesDirectories ==
  {Resolve(<<"/", "p">>, <<"bower_components">>), Resolve(<<"/", "p">>, <<"node_modules">>)}

\* The directory of the specification's example.
ExampleDirectory ==
  Directory(Resolve(<<"/", "p">>, <<"bower_components">>),
            <<DirectoryEntry(<<".", "g", "i", "t">>, TRUE),
              DirectoryEntry(<<"l", "o", "d", "a", "s", "h">>, TRUE),
              DirectoryEntry(<<"l", "e", "f", "t", "-", "p", "a", "d">>, TRUE)>>)

\* Directories of up to MaxChildren children, no two of the same name.
DirectoryInputs ==
  {ExampleDirectory}
  \cup {Directory(p, es) :
          p \in DependenciesDirectories,
          es \in {s \in SeqsUpTo(DirectoryEntries, MaxChildren) :
                    \A i, j \in DOMAIN s : i # j => s[i].name # s[j].name}}

InitUtilities ==
  /\ DependencyPipelineIdle
  /\ ImportPipelineIdle
  /\ versionOut = NotCalled
  /\ objOut = "<not called>"
  /\ namesOut = NoNames
  /\ \/ versionIn \in VersionInputs /\ objIn = NoObject /\ directoryIn = NoDirectory
     \/ versionIn = NotCalled /\ objIn \in ManifestInputs /\ directoryIn = NoDirectory
     \/ versionIn = NotCalled /\ objIn = NoObject /\ directoryIn \in DirectoryInputs

CallPruneVersionString ==
  /\ versionIn # NotCalled
  /\ versionOut = NotCalled
  /\ versionOut' = pruneVersionString(versionIn)
  /\ UNCHANGED <<depVars, impVars, versionIn, objIn, objOut, directoryIn, namesOut>>

\* The registrar's version of a manifest: getDependencyMetadata(json).version
CallGetDependencyMetadata ==
  /\ objIn # NoObject
  /\ objOut = "<not called>"
  /\ objOut' = getDependencyMetadata(objIn).version
  /\ UNCHANGED <<depVars, impVars, versionIn, versionOut, objIn, directoryIn, namesOut>>

\* The listing of listInstalledDependencies:
\* listDirectoryContents(directory).then(extractFolderNamesSync)
ExtractFolderNames ==
  /\ directoryIn # NoDirectory
  /\ ~namesOut.called
  /\ namesOut' = [called |-> TRUE,
                  names |-> extractFolderNamesSync(directoryIn,
                                                   listDirectoryContents(directoryIn))]
  /\ UNCHANGED <<depVars, impVars, versionIn, versionOut, objIn, objOut, directoryIn>>

NextUtilities == CallPruneVersionString \/ CallGetDependencyMetadata \/ ExtractFolderNames

SpecUtilities == InitUtilities /\ [][NextUtilities]_vars

(***************************************************************************)
(* generateImportGraph, step by step.                                      *)
(***************************************************************************)
PathAlphabet == {"/", ".", "a", "b"}

AttributeValues == SeqsUpTo(PathAlphabet, MaxValueLen)

SourceRoots == {<<"/", "a", "/", "b">>, <<"/", "a", "/">>}

\* "/a" becomes "../b", and "b" becomes "a".
ResolutionPairs == {<<<<"/", "a">>, <<".", ".", "/", "b">>>>, <<<<"b">>, <<"a">>>>}

\* The importResolutions maps, keys in any order.
ResolutionMaps == DistinctSeqsUpTo(ResolutionPairs, Cardinality(ResolutionPairs))

TagPairs == {<<"link", "href">>, <<"script", "src">>}

\* The importTags maps, keys in any order.
TagMaps == DistinctSeqsUpTo(TagPairs, Cardinality(TagPairs))

Inspection(entryPath, sourceRoot, importResolutions, importTags) ==
  [entryPath |-> entryPath, sourceRoot |-> sourceRoot,
   importResolutions |-> importResolutions, importTags |-> importTags]

\* One link element with any href, under any resolutions map.
SubstitutionCases ==
  {[opts |-> Inspection(<<"index", ".", "html">>, root, resolutions, <<<<"link", "href">>>>),
    doc |-> <<Element("link", "href", value)>>] :
     root \in SourceRoots, resolutions \in ResolutionMaps, value \in AttributeValues}

StructureElements ==
  {Element(tag, attr, value) :
     tag \in {"link", "script"}, attr \in {"href", "src"},
     value \in {<<>>, <<"a">>, <<"/", "a">>}}

\* Any elements, with and without the attribute, under any importTags map.
StructureCases ==
  {[opts |-> Inspection(<<"index", ".", "html">>, <<"/", "a", "/", "b">>,
                        <<<<<<"/", "a">>, <<".", ".", "/", "b">>>>>>, tags),
    doc |-> doc] :
     tags \in TagMaps, doc \in SeqsUpTo(StructureElements, MaxElements)}

\* The specification's example; each name stands for its run of characters.
\* <link rel="import" href="/bower_components/x-elem/x-elem.html">
ExampleCase ==
  [opts |-> Inspection(<<"index", ".", "html">>,
                       <<"/", "proj", "/", "build", "/", "public">>,
                       <<<<<<"/", "bower_components">>,
                           <<".", ".", "/", ".", ".", "/", "bower_components">>>>>>,
                       <<<<"link", "href">>>>),
   doc |-> <<Element("link", "href",
                     <<"/", "bower_components", "/", "x-elem", "/", "x-elem", ".", "html">>)>>]

InspectionCases == SubstitutionCases \cup StructureCases \cup {ExampleCase}

InitImport ==
  /\ DependencyPipelineIdle
  /\ UtilIdle
  /\ \E case \in InspectionCases :
       /\ inspection = case.opts
       /\ \/ fileExists = TRUE /\ document = case.doc
          \/ fileExists = FALSE /\ document = <<>>
  /\ ipc = "start"
  /\ ioLog = <<>>
  /\ fileMetadata = NoMetadata
  /\ importGraph = NewImportGraph
  /\ ierror = "none"

\* generateImportGraph up to the first await: new ImportGraph(), the
\* generator's first step, getMetadataForFile and readFileAtPath.
ReadFileAtPath ==
  /\ ipc = "start"
  /\ IF FileFound(fileExists)
     THEN /\ ioLog' = ioLog \o <<"existsSync", "readFile">>
          /\ ipc' = "reading"
          /\ ierror' = ierror
     ELSE /\ ioLog' = Append(ioLog, "existsSync")
          /\ ipc' = "rejected"
          /\ ierror' = "File not found at path"
  /\ UNCHANGED <<depVars, utilVars, inspection, fileExists, document, fileMetadata,
                 importGraph>>

\* getMetadataForFile after its await: load the markup and walk the tags.
GetMetadataForFile ==
  /\ ipc = "reading"
  /\ IF fileExists
     THEN /\ ioLog' = Append(ioLog, "load")
          /\ fileMetadata' =
               [filePath |-> EntryFilePath(inspection),
                importDeclarations |->
                  DeclarationsOfTags(inspection, document, inspection.importTags)]
          /\ ipc' = "inspected"
          /\ ierror' = ierror
     ELSE /\ ipc' = "rejected"
          /\ ierror' = "ENOENT"
          /\ UNCHANGED <<ioLog, fileMetadata>>
  /\ UNCHANGED <<depVars, utilVars, inspection, fileExists, document, importGraph>>

\* registerSourceFiles after its await: the metadata is printed, the loop
\* ends, and generateImportGraph returns the graph.
RegisterSourceFiles ==
  /\ ipc = "inspected"
  /\ ioLog' = Append(ioLog, "console.log")
  /\ ipc' = "done"
  /\ UNCHANGED <<depVars, utilVars, inspection, fileExists, document, fileMetadata,
                 importGraph, ierror>>

NextImport == ReadFileAtPath \/ GetMetadataForFile \/ RegisterSourceFiles

SpecImport == InitImport /\ [][NextImport]_vars

NextTwice == Next \/ CallAgain

InitTwice == Init /\ packageManager = "bower"

SpecTwice == InitTwice /\ [][NextTwice]_vars

(***************************************************************************)
(* What the file system holds, read off the folders themselves.            *)
(***************************************************************************)
InstalledManifests == {folders[i].json : i \in {j \in DOMAIN folders : folders[j].ok}}

InstalledKeys == {Key(m.name, m.version) : m \in InstalledManifests}

\* The (name, range) pairs the manifest declares.
Declared(m) == {Key(m.dependencies[i][1], m.dependencies[i][2]) : i \in DOMAIN m.dependencies}

RealNodes == {node \in Range(graph.nodes) : node.kind = "real"}

ImpliedNodes == {node \in Range(graph.nodes) : node.kind = "implied"}

NodesWithKey(key) == {i \in DOMAIN graph.nodes : graph.nodes[i].key = key}

(***************************************************************************)
(* C1: every inter-dependency edge is created after the real and the       *)
(* implied registration have both finished, and when createInterDependency *)
(* is called its source and its target are both registered nodes: no edge  *)
(* ever points to a node the graph does not hold.                          *)
(***************************************************************************)
C1_EdgesJoinRegisteredNodes ==
  /\ (edgeLog # <<>> \/ graph.edges # {}) => pc = "done"
  /\ \A i \in DOMAIN edgeLog : edgeLog[i].fromRegistered /\ edgeLog[i].toRegistered
  /\ \A e \in graph.edges : e.from \in NodeKeys(graph) /\ e.to \in NodeKeys(graph)
  /\ pc = "done" =>
       \A m \in InstalledManifests : \A d \in Declared(m) :
         [from |-> Key(m.name, m.version), to |-> d] \in graph.edges

\* An edge to an implied node and an edge to a real node have been created.
C1_Witness ==
  /\ pc = "done"
  /\ \E e \in graph.edges : \E node \in ImpliedNodes : node.key = e.to
  /\ \E e \in graph.edges : \E node \in RealNodes : node.key = e.to

(***************************************************************************)
(* C2: once registerImpliedDependencies has run, an implied node exists    *)
(* only for a pair that no real node has, and a pair that several nodes    *)
(* declare has exactly one node.                                           *)
(***************************************************************************)
C2_ImpliedOnlyWhenNoRealAndOnce ==
  pc \in {"implied", "done"} =>
    /\ \A node \in ImpliedNodes : node.key \notin InstalledKeys
    /\ \A m \in InstalledManifests : \A d \in Declared(m) :
         Cardinality(NodesWithKey(d)) = 1

\* Two installed manifests declare the same pair, which is not installed:
\* addImpliedDependency has been asked for it twice.
C2_Witness ==
  /\ pc = "done"
  /\ \E m1, m2 \in InstalledManifests :
       /\ m1 # m2
       /\ \E d \in Declared(m1) \cap Declared(m2) :
            /\ d \notin InstalledKeys
            /\ Cardinality({i \in DOMAIN impliedRequests : impliedRequests[i] = d}) = 2
            /\ Cardinality(NodesWithKey(d)) = 1

(***************************************************************************)
(* C3: alias exactness.  A declared range that is not, as a string, the    *)
(* version of an installed manifest of that name gets an implied node of   *)
(* its own, next to the real nodes of the name; A declaring B: "^2.0.0"    *)
(* with B installed at "2.3.1" gives the implied node (B, "^2.0.0") and    *)
(* the real node (B, "2.3.1").                                             *)
(***************************************************************************)
C3_AliasExactness ==
  pc \in {"implied", "done"} =>
    /\ \A m \in InstalledManifests : \A d \in Declared(m) :
         d \notin InstalledKeys =>
           /\ \E node \in ImpliedNodes : node.key = d
           /\ \A node \in RealNodes : node.key # d
    /\ \A k \in InstalledKeys : \E node \in RealNodes : node.key = k
    /\ ( /\ \E m \in InstalledManifests :
              m.name = "A" /\ Key("B", "^2.0.0") \in Declared(m)
         /\ Key("B", "2.3.1") \in InstalledKeys )
       => /\ \E node \in ImpliedNodes : node.key = Key("B", "^2.0.0")
          /\ \E node \in RealNodes : node.key = Key("B", "2.3.1")

\* A declares B: "^2.0.0", B is installed at "2.3.1", and the resolver has run.
C3_Witness ==
  /\ pc = "done"
  /\ \E m \in InstalledManifests : m.name = "A" /\ Key("B", "^2.0.0") \in Declared(m)
  /\ Key("B", "2.3.1") \in InstalledKeys
  /\ Key("B", "^2.0.0") \in {node.key : node \in ImpliedNodes}

(***************************************************************************)
(* C10: when every installed manifest has an empty dependencies map, no    *)
(* implied node is registered and no edge is created: the graph holds the  *)
(* real nodes and nothing else.                                            *)
(***************************************************************************)
C10_NoDependenciesNoImpliedNoEdges ==
  (pc = "done" /\ \A m \in InstalledManifests : m.dependencies = <<>>) =>
    /\ impliedRequests = <<>>
    /\ ImpliedNodes = {}
    /\ edgeLog = <<>>
    /\ graph.edges = {}
    /\ NodeKeys(graph) = InstalledKeys
    /\ Len(graph.nodes) = Len(folders)

\* Two manifests are installed, neither declares a dependency, and the
\* pipeline has returned.
C10_Witness ==
  /\ pc = "done"
  /\ Len(folders) >= 2
  /\ \A m \in InstalledManifests : m.dependencies = <<>>
  /\ \E m \in InstalledManifests : Contains("dependencies", Keys(m))
  /\ Cardinality(NodeKeys(graph)) >= 2

(***************************************************************************)
(* C9: idempotence.  Two calls of generateDependencyGraph on the same      *)
(* manifests return graphs with the same nodes and the same edges.         *)
(***************************************************************************)
C9_SecondRunSameGraph ==
  (run = 2 /\ pc = "done") =>
    /\ Range(graph.nodes) = Range(firstGraph.nodes)
    /\ graph.edges = firstGraph.edges

\* The second call has returned a graph with real and implied nodes and an
\* edge, after reads that ended in another order than they were issued.
C9_Witness ==
  /\ run = 2
  /\ pc = "done"
  /\ Len(completed) >= 2
  /\ completed[1] > completed[2]
  /\ ImpliedNodes # {}
  /\ Cardinality(RealNodes) >= 2
  /\ graph.edges # {}

(***************************************************************************)
(* C7: version extraction precedence.  For a manifest that has a version   *)
(* key the registrar's version is the value of version, wherever _release  *)
(* and the other keys stand; with _release and no version it is the value  *)
(* of _release.                                                            *)
(***************************************************************************)
C7_VersionBeforeRelease ==
  objOut # "<not called>" =>
    /\ Contains("version", objIn.keys) => objOut = objIn.version
    /\ (~Contains("version", objIn.keys) /\ Contains("_release", objIn.keys))
         => objOut = objIn.release

\* The manifest lists _release before version, with other keys around, the
\* two values differ, and the registrar took the value of version.
C7_Witness ==
  /\ objOut # "<not called>"
  /\ Len(objIn.keys) = 4
  /\ \E i, j \in DOMAIN objIn.keys :
       i < j /\ objIn.keys[i] = "_release" /\ objIn.keys[j] = "version"
  /\ objIn.version = "1.0.0"
  /\ objIn.release = "1.0.0-release"
  /\ objOut = "1.0.0"

(***************************************************************************)
(* C8: version string normalization.  "^1.2.3" gives "1.2.3", "~2.0" gives *)
(* "2.0", "*" gives "*"; a leading range operator (^, ~, <, >, <=, >=) is  *)
(* pruned and the bare version is returned.                                *)
(***************************************************************************)
RangeOperators == {<<"^">>, <<"~">>, <<"<">>, <<">">>, <<"<", "=">>, <<">", "=">>}

\* Digits separated by single dots: 1, 1.2, 1.2.3
BareVersion(r) ==
  /\ Len(r) \in {1, 3, 5}
  /\ \A i \in DOMAIN r : IF i % 2 = 1 THEN r[i] \in Digits ELSE r[i] = "."

C8_PrunesRangeOperator ==
  versionOut # NotCalled =>
    /\ versionIn = <<"^", "1", ".", "2", ".", "3">> => versionOut = <<"1", ".", "2", ".", "3">>
    /\ versionIn = <<"~", "2", ".", "0">> => versionOut = <<"2", ".", "0">>
    /\ versionIn = <<"*">> => versionOut = <<"*">>
    /\ \A op \in RangeOperators : \A k \in 1..Len(versionIn) :
         (SubSeq(versionIn, 1, k) = op /\ BareVersion(SubSeq(versionIn, k + 1, Len(versionIn))))
           => versionOut = SubSeq(versionIn, k + 1, Len(versionIn))

(***************************************************************************)
(* C4: the import graph generateImportGraph returns holds a node for the   *)
(* inspected file and one edge per import declaration, from the file to    *)
(* the declaration's importPath.                                           *)
(***************************************************************************)
C4_GraphHoldsFileAndImports ==
  ipc = "done" =>
    /\ fileMetadata.filePath \in importGraph.files
    /\ \A i \in DOMAIN fileMetadata.importDeclarations :
         [from |-> fileMetadata.filePath,
          to |-> fileMetadata.importDeclarations[i].importPath] \in importGraph.edges

(***************************************************************************)
(* C5: every element of a configured tag whose configured attribute has a  *)
(* non-empty value gives exactly one import declaration, in the order of   *)
(* the tags and of the document, whose importPath is the value with every  *)
(* placeholder substituted in map order, resolved against sourceRoot;      *)
(* other elements give none.  The link of the example gives the one        *)
(* declaration /proj/bower_components/x-elem/x-elem.html.                  *)
(***************************************************************************)
\* The (tag pair, element) positions that carry an import.
ImportPositions ==
  {p \in (DOMAIN inspection.importTags) \X (DOMAIN document) :
     /\ document[p[2]].tag = inspection.importTags[p[1]][1]
     /\ document[p[2]].attr = inspection.importTags[p[1]][2]
     /\ document[p[2]].value # <<>>}

\* How many positions come before p, plus one.
RankOfPosition(p) ==
  1 + Cardinality({q \in ImportPositions : q[1] < p[1] \/ (q[1] = p[1] /\ q[2] < p[2])})

\* The value after the substitutions of the map, taken in order.
SubstitutedInOrder(value) ==
  LET resolutions == inspection.importResolutions
      after[i \in 0..Len(resolutions)] ==
        IF i = 0 THEN value
        ELSE ReplaceFirst(after[i - 1], resolutions[i][1], resolutions[i][2])
  IN  after[Len(resolutions)]

C5_OneDeclarationPerImport ==
  ipc \in {"inspected", "done"} =>
    LET declarations == fileMetadata.importDeclarations
    IN  /\ Len(declarations) = Cardinality(ImportPositions)
        /\ \A p \in ImportPositions :
             declarations[RankOfPosition(p)] =
               [importDetails |-> [tagName |-> inspection.importTags[p[1]][1],
                                   attributeName |-> inspection.importTags[p[1]][2]],
                importPath |-> Resolve(inspection.sourceRoot,
                                       SubstitutedInOrder(document[p[2]].value))]
        /\ (inspection = ExampleCase.opts /\ document = ExampleCase.doc) =>
             declarations =
               <<[importDetails |-> [tagName |-> "link", attributeName |-> "href"],
                  importPath |-> <<"/", "proj", "/", "bower_components", "/", "x-elem",
                                   "/", "x-elem", ".", "html">>]>>

\* The href "/ab" holds both placeholders: "/a" has become "../b", then the
\* first "b" has become "a", and "../ab" has been resolved against "/a/b".
C5_Witness ==
  /\ ipc = "done"
  /\ inspection.sourceRoot = <<"/", "a", "/", "b">>
  /\ inspection.importResolutions =
       <<<<<<"/", "a">>, <<".", ".", "/", "b">>>>, <<<<"b">>, <<"a">>>>>>
  /\ document = <<Element("link", "href", <<"/", "a", "b">>)>>
  /\ fileMetadata.importDeclarations =
       <<ImportDeclaration("link", "href", <<"/", "a", "/", "a", "b">>)>>

(***************************************************************************)
(* C6: when no file is at the entry path, the inspection fails with the    *)
(* file-not-found error before the file is read or any markup is loaded,   *)
(* and it never resolves to a FileMetadata.                                *)
(***************************************************************************)
C6_MissingEntryFileFailsFast ==
  (~fileExists /\ ipc \notin {"idle", "start"}) =>
    /\ ipc = "rejected"
    /\ ierror = "File not found at path"
    /\ ~Contains("readFile", ioLog)
    /\ ~Contains("load", ioLog)
    /\ fileMetadata = NoMetadata
    /\ importGraph = NewImportGraph

\* The entry file is missing and the inspection has been rejected.
C6_Witness ==
  /\ ~fileExists
  /\ ipc = "rejected"
  /\ ioLog = <<"existsSync">>

(***************************************************************************)
(* C11: no partial graph.  Once the read of one manifest has failed, the   *)
(* construction is waiting for Promise.all or has been rejected with the   *)
(* read's error; it never goes on to register, and the graph has no node   *)
(* and no edge.  No read is made twice: every folder's read ends at most   *)
(* once.                                                                   *)
(***************************************************************************)
C11_NoPartialGraph ==
  /\ PromiseAllRejected(reads) =>
       /\ pc \in {"reading", "rejected"}
       /\ pc = "rejected" => error = "manifest read failed"
       /\ graph = NewDependencyGraph
       /\ impliedRequests = <<>>
       /\ edgeLog = <<>>
  /\ \A i, j \in DOMAIN completed : i # j => completed[i] # completed[j]

\* Two folders, the first manifest read, the second one broken: the
\* construction is rejected although one JSON document was there.
C11_Witness ==
  /\ pc = "rejected"
  /\ error = "manifest read failed"
  /\ Len(folders) = 2
  /\ reads = <<"done", "failed">>
  /\ graph = NewDependencyGraph

(***************************************************************************)
(* C12: a package manager that is absent or neither bower nor npm rejects  *)
(* the construction with the configuration error before any I/O: the       *)
(* directory listing is never started, no manifest read is ever issued,    *)
(* and nothing is registered.                                              *)
(***************************************************************************)
C12_ConfigurationErrorBeforeIO ==
  packageManager \notin {"bower", "npm"} =>
    /\ pc \in {"start", "rejected"}
    /\ pc = "rejected" => error = "A 'packageManager' must be supplied"
    /\ reads = <<>>
    /\ completed = <<>>
    /\ graph = NewDependencyGraph

\* No package manager was given, the directory holds a readable manifest,
\* and the construction has been rejected.
C12_Witness ==
  /\ packageManager = Undefined
  /\ pc = "rejected"
  /\ error = "A 'packageManager' must be supplied"
  /\ \E i \in DOMAIN folders : folders[i].ok

C14_AbsoluteAndPlaceholderFree ==
  \A i \in DOMAIN fileMetadata.importDeclarations :
    LET importPath == fileMetadata.importDeclarations[i].importPath
    IN  /\ Head(importPath) = "/"
        /\ \A k \in DOMAIN inspection.importResolutions :
             Occurrences(importPath, inspection.importResolutions[k][1]) = {}

(***************************************************************************)
(* C14 as the code has it: every import declaration's importPath is an     *)
(* absolute path in normal form: it begins at the root and has no empty    *)
(* segment, no "." and no ".." segment.  It may hold a placeholder string: *)
(* one that its replacing value or the source root brings in.              *)
(***************************************************************************)
C14_AbsoluteNormalPath ==
  \A i \in DOMAIN fileMetadata.importDeclarations :
    LET importPath == fileMetadata.importDeclarations[i].importPath
        segments == SplitPath(importPath, <<>>, <<>>)
    IN  /\ Head(importPath) = "/"
        /\ importPath # <<"/">> =>
             \A n \in 2..Len(segments) :
               segments[n] \notin {<<>>, <<".">>, <<".", ".">>}

\* The options of the scanner's own call: the placeholder "/bower_components"
\* is replaced by "../../bower_components", and the path resolved against
\* the source root is absolute and holds the placeholder again.
C14_Witness ==
  /\ ipc = "inspected"
  /\ inspection.importResolutions =
       <<<<<<"/", "bower_components">>,
           <<".", ".", "/", ".", ".", "/", "bower_components">>>>>>
  /\ Len(fileMetadata.importDeclarations) = 1
  /\ fileMetadata.importDeclarations[1].importPath =
       <<"/", "proj", "/", "bower_components", "/", "x-elem", "/", "x-elem", ".", "html">>
  /\ Occurrences(fileMetadata.importDeclarations[1].importPath,
                 <<"/", "bower_components">>) # {}

(***************************************************************************)
(* C15: the manifest reads are issued together, one per installed folder,  *)
(* before any of them is awaited; and whatever the order in which they     *)
(* end, no real node is registered, no implied node is resolved and no     *)
(* edge is created while one of the reads is still pending.                *)
(***************************************************************************)
C15_AllReadsEndBeforeRegistration ==
  /\ pc = "reading" => DOMAIN reads = DOMAIN folders
  /\ (\/ pc \in {"registered", "implied", "done"}
      \/ graph # NewDependencyGraph
      \/ impliedRequests # <<>>
      \/ edgeLog # <<>>)
       => /\ DOMAIN reads = DOMAIN folders
          /\ \A i \in DOMAIN reads : reads[i] # "pending"
          /\ Range(completed) = DOMAIN folders

\* Two reads in flight at once, the second one ending first: the real nodes
\* are registered after both have ended.
C15_Witness ==
  /\ pc = "registered"
  /\ Len(folders) = 2
  /\ completed = <<2, 1>>
  /\ Len(graph.nodes) = 2

====
